---------------------------- MODULE Spec2Model ----------------------------
(***************************************************************************)
(* A model of the chesssnake Game object and of its record in the Games    *)
(* table.                                                                  *)
(*                                                                         *)
(*   - the game controller (turn, draw protocol) is src/game.py's Game;    *)
(*   - the PostgreSQL layer is src/chesssnake/postgres/Game.py's Game,     *)
(*     which wraps each controller method and then writes the record;      *)
(*   - the rules engine (module Chess: Board, Move, Square) and the text   *)
(*     codec (Board.assemble_board / Board.disassemble_board) are not in   *)
(*     the source tree; they are modelled from spec.md sections 3 and 4.   *)
(*                                                                         *)
(* chesslib.Game, the base class of the PostgreSQL Game, is not in the     *)
(* source tree either: the controller methods it is called for are taken   *)
(* from src/game.py's Game (the repository's code for the same methods),   *)
(* whose own SQL statements are the "legacy" persistence mode below.       *)
(***************************************************************************)
EXTENDS Integers, Sequences, FiniteSets, TLC

(***************************************************************************)
(* Squares, pieces, the board (spec.md section 3)                          *)
(***************************************************************************)
Squares == 0 .. 63

NoSquare == 64

File(s) == s % 8

Rank(s) == s \div 8

Sq(f, r) == f + 8 * r

Abs(x) == IF x < 0 THEN 0 - x ELSE x

Sgn(x) == IF x < 0 THEN 0 - 1 ELSE IF x > 0 THEN 1 ELSE 0

Max(x, y) == IF x < y THEN y ELSE x

White == 0

Black == 1

Other(c) == 1 - c

Empty == [t |-> "-", c |-> 2]

Pc(t, c) == [t |-> t, c |-> c]

PieceLetters == {"N", "B", "R", "Q", "K"}

PromoLetters == {"Q", "N", "B", "R"}

FileChars == <<"a", "b", "c", "d", "e", "f", "g", "h">>

RankChars == <<"1", "2", "3", "4", "5", "6", "7", "8">>

FileIdx(ch) == (CHOOSE i \in 1 .. 8 : FileChars[i] = ch) - 1

RankIdx(ch) == (CHOOSE i \in 1 .. 8 : RankChars[i] = ch) - 1

IsFile(ch) == \E i \in 1 .. 8 : FileChars[i] = ch

IsRank(ch) == \E i \in 1 .. 8 : RankChars[i] = ch

\* game status codes: board.status
InProgress == 0

Checkmate == 1

DrawByAgreement == 2

Stalemate == 3

\* the squares whose first departure the six "moved" flags record, in the
\* flag string's order: white king, white a- and h-rook, black king, black
\* a- and h-rook
MovedSquares == <<4, 0, 7, 60, 56, 63>>

BackRank == <<"R", "N", "B", "Q", "K", "B", "N", "R">>

StartSquares ==
  [s \in Squares |->
     IF Rank(s) = 0 THEN Pc(BackRank[File(s) + 1], White)
     ELSE IF Rank(s) = 1 THEN Pc("P", White)
     ELSE IF Rank(s) = 6 THEN Pc("P", Black)
     ELSE IF Rank(s) = 7 THEN Pc(BackRank[File(s) + 1], Black)
     ELSE Empty]

\* Chess.Board(): the standard starting position
NewBoard ==
  [sq |-> StartSquares, two_moveP |-> NoSquare,
   moved |-> [i \in 1 .. 6 |-> FALSE], status |-> InProgress]

(***************************************************************************)
(* Movement shapes (spec.md 4.2, step 1)                                   *)
(***************************************************************************)
PathClear(sq, from, to) ==
  LET dx == File(to) - File(from)
      dy == Rank(to) - Rank(from)
      n  == Max(Abs(dx), Abs(dy))
      st == Sgn(dx) + 8 * Sgn(dy)
  IN  \A k \in 1 .. (n - 1) : sq[from + k * st] = Empty

PawnDir(c) == IF c = White THEN 1 ELSE 0 - 1

PawnStartRank(c) == IF c = White THEN 1 ELSE 6

LastRank(c) == IF c = White THEN 7 ELSE 0

\* the squares a piece attacks: what it could capture on
Attacks(sq, from, to) ==
  LET p  == sq[from]
      dx == File(to) - File(from)
      dy == Rank(to) - Rank(from)
  IN  /\ from # to
      /\ CASE p.t = "N" -> {Abs(dx), Abs(dy)} = {1, 2}
           [] p.t = "K" -> Max(Abs(dx), Abs(dy)) = 1
           [] p.t = "R" -> (dx = 0 \/ dy = 0) /\ PathClear(sq, from, to)
           [] p.t = "B" -> Abs(dx) = Abs(dy) /\ PathClear(sq, from, to)
           [] p.t = "Q" -> (dx = 0 \/ dy = 0 \/ Abs(dx) = Abs(dy))
                           /\ PathClear(sq, from, to)
           [] p.t = "P" -> Abs(dx) = 1 /\ dy = PawnDir(p.c)
           [] OTHER -> FALSE

\* the static movement shape of the piece on from reaches to
Reaches(b, from, to) ==
  LET p  == b.sq[from]
      dx == File(to) - File(from)
      dy == Rank(to) - Rank(from)
  IN  IF p.t = "P"
      THEN \/ dx = 0 /\ dy = PawnDir(p.c) /\ b.sq[to] = Empty
           \/ /\ dx = 0 /\ dy = 2 * PawnDir(p.c)
              /\ Rank(from) = PawnStartRank(p.c)
              /\ b.sq[from + 8 * PawnDir(p.c)] = Empty
              /\ b.sq[to] = Empty
           \/ /\ Abs(dx) = 1 /\ dy = PawnDir(p.c)
              /\ (b.sq[to].c = Other(p.c) \/ to = b.two_moveP)
      ELSE Attacks(b.sq, from, to)

KingSquare(sq, c) == CHOOSE s \in Squares : sq[s] = Pc("K", c)

HasKing(sq, c) == \E s \in Squares : sq[s] = Pc("K", c)

Attacked(sq, s, by) ==
  \E f \in Squares : sq[f].c = by /\ Attacks(sq, f, s)

InCheck(sq, c) == HasKing(sq, c) /\ Attacked(sq, KingSquare(sq, c), Other(c))

(***************************************************************************)
(* Board.apply: the board after the piece on from goes to to               *)
(***************************************************************************)
IsEnPassant(b, from, to) ==
  b.sq[from].t = "P" /\ to = b.two_moveP /\ File(from) # File(to)
  /\ b.sq[to] = Empty

IsDoubleStep(b, from, to) ==
  b.sq[from].t = "P" /\ Abs(Rank(to) - Rank(from)) = 2

ApplySquares(b, from, to, promo) ==
  LET p    == b.sq[from]
      put  == IF promo = "-" THEN p ELSE Pc(promo, p.c)
      epSq == Sq(File(to), Rank(from))
  IN  [s \in Squares |->
         IF s = to THEN put
         ELSE IF s = from THEN Empty
         ELSE IF IsEnPassant(b, from, to) /\ s = epSq THEN Empty
         ELSE b.sq[s]]

\* Board.apply that leaves the en-passant target of the move before
ApplyMove_KeepsTarget(b, from, to, promo) ==
  [sq        |-> ApplySquares(b, from, to, promo),
   two_moveP |-> IF IsDoubleStep(b, from, to)
                 THEN Sq(File(from), (Rank(from) + Rank(to)) \div 2)
                 ELSE b.two_moveP,
   moved     |-> [i \in 1 .. 6 |-> b.moved[i] \/ MovedSquares[i] = from],
   status    |-> b.status]

\* Board.apply that recomputes the moved flags from this move alone
ApplyMove_ResetsFlags(b, from, to, promo) ==
  [sq        |-> ApplySquares(b, from, to, promo),
   two_moveP |-> IF IsDoubleStep(b, from, to)
                 THEN Sq(File(from), (Rank(from) + Rank(to)) \div 2)
                 ELSE NoSquare,
   moved     |-> [i \in 1 .. 6 |-> MovedSquares[i] = from],
   status    |-> b.status]

ApplyMove(b, from, to, promo) ==
  [sq        |-> ApplySquares(b, from, to, promo),
   two_moveP |-> IF IsDoubleStep(b, from, to)
                 THEN Sq(File(from), (Rank(from) + Rank(to)) \div 2)
                 ELSE NoSquare,
   moved     |-> [i \in 1 .. 6 |-> b.moved[i] \/ MovedSquares[i] = from],
   status    |-> b.status]

\* castling: wing "K" or "Q"; the king goes two files, the rook jumps over
CastleRank(c) == IF c = White THEN 0 ELSE 7

CastleKingTo(c, wing) == Sq(IF wing = "K" THEN 6 ELSE 2, CastleRank(c))

CastleRookFrom(c, wing) == Sq(IF wing = "K" THEN 7 ELSE 0, CastleRank(c))

CastleRookTo(c, wing) == Sq(IF wing = "K" THEN 5 ELSE 3, CastleRank(c))

KingFlag(c) == IF c = White THEN 1 ELSE 4

RookFlag(c, wing) == KingFlag(c) + (IF wing = "K" THEN 2 ELSE 1)

\* castling that puts a king on the target square and leaves the one on e1/e8
ApplyCastle_KeepsKing(b, c, wing) ==
  [sq        |-> [s \in Squares |->
                    IF s = CastleKingTo(c, wing) THEN Pc("K", c)
                    ELSE IF s = CastleRookTo(c, wing) THEN Pc("R", c)
                    ELSE IF s = CastleRookFrom(c, wing) THEN Empty
                    ELSE b.sq[s]],
   two_moveP |-> NoSquare,
   moved     |-> [i \in 1 .. 6 |->
                    b.moved[i] \/ i \in {KingFlag(c), RookFlag(c, wing)}],
   status    |-> b.status]

ApplyCastle(b, c, wing) ==
  LET kf == Sq(4, CastleRank(c))
  IN  [sq        |-> [s \in Squares |->
                        IF s = CastleKingTo(c, wing) THEN Pc("K", c)
                        ELSE IF s = CastleRookTo(c, wing) THEN Pc("R", c)
                        ELSE IF s \in {kf, CastleRookFrom(c, wing)} THEN Empty
                        ELSE b.sq[s]],
       two_moveP |-> NoSquare,
       moved     |-> [i \in 1 .. 6 |->
                        b.moved[i] \/ i \in {KingFlag(c), RookFlag(c, wing)}],
       status    |-> b.status]

CastleOk(b, c, wing) ==
  LET kf   == Sq(4, CastleRank(c))
      kt   == CastleKingTo(c, wing)
      rf   == CastleRookFrom(c, wing)
      lo   == IF kf < rf THEN kf ELSE rf
      hi   == IF kf < rf THEN rf ELSE kf
      klo  == IF kf < kt THEN kf ELSE kt
      khi  == IF kf < kt THEN kt ELSE kf
  IN  /\ ~b.moved[KingFlag(c)] /\ ~b.moved[RookFlag(c, wing)]
      /\ b.sq[kf] = Pc("K", c) /\ b.sq[rf] = Pc("R", c)
      /\ \A s \in (lo + 1) .. (hi - 1) : b.sq[s] = Empty
      /\ \A s \in klo .. khi : ~Attacked(b.sq, s, Other(c))

\* a move of c's piece from -> to is legal
LegalStep(b, c, from, to) ==
  /\ b.sq[from].c = c
  /\ b.sq[to].c # c
  /\ Reaches(b, from, to)
  /\ ~InCheck(ApplySquares(b, from, to, "-"), c)

HasLegalMove(b, c) ==
  \E from \in Squares : b.sq[from].c = c
     /\ \E to \in Squares : LegalStep(b, c, from, to)

\* the status for side c, which is to move on b
StatusFor(b, c) ==
  IF HasLegalMove(b, c) THEN InProgress
  ELSE IF InCheck(b.sq, c) THEN Checkmate ELSE Stalemate

(***************************************************************************)
(* Notation parser (spec.md 4.1).  A move string is a sequence of          *)
(* one-character strings.                                                  *)
(***************************************************************************)
BadIntent == [ok |-> FALSE]

ParseSquarePart(piece, s, promo) ==
  LET n   == Len(s)
      pre == SubSeq(s, 1, n - 2)
      cap == Len(pre) > 0 /\ pre[Len(pre)] = "x"
      dis == IF cap THEN SubSeq(pre, 1, Len(pre) - 1) ELSE pre
  IN  IF n < 2 \/ ~IsFile(s[n - 1]) \/ ~IsRank(s[n])
      THEN BadIntent
      ELSE IF ~(\/ dis = << >>
                \/ Len(dis) = 1 /\ (IsFile(dis[1]) \/ IsRank(dis[1]))
                \/ Len(dis) = 2 /\ IsFile(dis[1]) /\ IsRank(dis[2]))
      THEN BadIntent
      ELSE [ok      |-> TRUE,
            castle  |-> "-",
            piece   |-> piece,
            to      |-> Sq(FileIdx(s[n - 1]), RankIdx(s[n])),
            disFile |-> IF Len(dis) >= 1 /\ IsFile(dis[1])
                        THEN FileIdx(dis[1]) ELSE 8,
            disRank |-> IF Len(dis) >= 1 /\ IsRank(dis[Len(dis)])
                        THEN RankIdx(dis[Len(dis)]) ELSE 8,
            capture |-> cap,
            promo   |-> promo]

\* Chess.Move: the move intent of a notation string
ParseMove(m) ==
  IF m = <<"O", "-", "O">> THEN [ok |-> TRUE, castle |-> "K"]
  ELSE IF m = <<"O", "-", "O", "-", "O">> THEN [ok |-> TRUE, castle |-> "Q"]
  ELSE LET hasPiece == Len(m) > 0 /\ m[1] \in PieceLetters
           s1       == IF hasPiece THEN Tail(m) ELSE m
           hasPromo == /\ Len(s1) >= 2
                       /\ s1[Len(s1) - 1] = "="
                       /\ s1[Len(s1)] \in PromoLetters
           s2       == IF hasPromo THEN SubSeq(s1, 1, Len(s1) - 2) ELSE s1
       IN  ParseSquarePart(IF hasPiece THEN m[1] ELSE "P", s2,
                           IF hasPromo THEN s1[Len(s1)] ELSE "-")

\* Chess.Move.is_valid_c_notation
is_valid_c_notation(m) == ParseMove(m).ok

(***************************************************************************)
(* Legality resolver (spec.md 4.2) and Chess.Board.move                    *)
(***************************************************************************)
Fail(e, b) == [err |-> e, board |-> b]

\* the status recomputed for the side that has just moved
WithStatus_SameSide(b, c) == [b EXCEPT !.status = StatusFor(b, c)]

\* the status is recomputed for the side that is to move next
WithStatus(b, c) == [b EXCEPT !.status = StatusFor(b, Other(c))]

Candidates(b, c, i) ==
  {f \in Squares :
     /\ b.sq[f] = Pc(i.piece, c)
     /\ (i.disFile = 8 \/ File(f) = i.disFile)
     /\ (i.disRank = 8 \/ Rank(f) = i.disRank)
     /\ Reaches(b, f, i.to)}

\* the candidates without the king-safety filter
SafeCandidates_NoFilter(b, c, i) == Candidates(b, c, i)

SafeCandidates(b, c, i) ==
  {f \in Candidates(b, c, i) : ~InCheck(ApplySquares(b, f, i.to, "-"), c)}

\* the resolver without the test for several candidates: it moves one of them
ResolveStep_PicksOne(b, c, i) ==
  LET dest  == b.sq[i.to]
      cands == Candidates(b, c, i)
      safe  == SafeCandidates(b, c, i)
      from  == CHOOSE f \in safe : TRUE
      promotes == i.piece = "P" /\ Rank(i.to) = LastRank(c)
  IN  IF dest.c = c THEN Fail("CaptureOwnPieceError", b)
      ELSE IF i.capture /\ dest = Empty
              /\ ~(i.piece = "P" /\ i.to = b.two_moveP)
      THEN Fail("NothingToCaptureError", b)
      ELSE IF ~i.capture /\ dest # Empty THEN Fail("PieceOnSquareError", b)
      ELSE IF cands = {} THEN Fail("PieceNotFoundError", b)
      ELSE IF safe = {} THEN Fail("MoveIntoCheckError", b)
      ELSE IF promotes # (i.promo # "-") THEN Fail("PromotionError", b)
      ELSE [err |-> "none",
            board |-> WithStatus(ApplyMove(b, from, i.to, i.promo), c)]

ResolveStep(b, c, i) ==
  LET dest  == b.sq[i.to]
      cands == Candidates(b, c, i)
      safe  == SafeCandidates(b, c, i)
      from  == CHOOSE f \in safe : TRUE
      promotes == i.piece = "P" /\ Rank(i.to) = LastRank(c)
  IN  IF dest.c = c THEN Fail("CaptureOwnPieceError", b)
      ELSE IF i.capture /\ dest = Empty
              /\ ~(i.piece = "P" /\ i.to = b.two_moveP)
      THEN Fail("NothingToCaptureError", b)
      ELSE IF ~i.capture /\ dest # Empty THEN Fail("PieceOnSquareError", b)
      ELSE IF cands = {} THEN Fail("PieceNotFoundError", b)
      ELSE IF safe = {} THEN Fail("MoveIntoCheckError", b)
      ELSE IF Cardinality(safe) > 1 THEN Fail("MultiplePiecesFoundError", b)
      ELSE IF promotes # (i.promo # "-") THEN Fail("PromotionError", b)
      ELSE [err |-> "none",
            board |-> WithStatus(ApplyMove(b, from, i.to, i.promo), c)]

\* Chess.Board.move(move, turn): the outcome of a valid notation on b
BoardMove(b, m, c) ==
  LET i == ParseMove(m)
  IN  IF i.castle # "-"
      THEN IF CastleOk(b, c, i.castle)
           THEN [err |-> "none",
                 board |-> WithStatus(ApplyCastle(b, c, i.castle), c)]
           ELSE Fail("InvalidCastleError", b)
      ELSE ResolveStep(b, c, i)

(***************************************************************************)
(* Text codec (spec.md 4.4): Board.disassemble_board / assemble_board      *)
(***************************************************************************)
Digit(c) == IF c = White THEN "0" ELSE "1"

Token(p) == IF p = Empty THEN <<"-", "-">> ELSE <<p.t, Digit(p.c)>>

UnToken(t) ==
  IF t = <<"-", "-">> THEN Empty
  ELSE Pc(t[1], IF t[2] = "0" THEN White ELSE Black)

Bit(f) == IF f THEN "1" ELSE "0"

\* (boardstr, moved): eight rank records, rank 8 first, of eight tokens
disassemble_board(b) ==
  << [r \in 1 .. 8 |-> [f \in 1 .. 8 |-> Token(b.sq[Sq(f - 1, 8 - r)])]],
     [i \in 1 .. 6 |-> Bit(b.moved[i])] >>

\* the board array of a stored (boardstr, moved) pair
assemble_board(boardstr, moved) ==
  [sq    |-> [s \in Squares |->
                UnToken(boardstr[8 - Rank(s)][File(s) + 1])],
   moved |-> [i \in 1 .. 6 |-> moved[i] = "1"]]

\* Square.c_notation
c_notation(s) == <<FileChars[File(s) + 1], RankChars[Rank(s) + 1]>>

\* Board.get_coords
get_coords(n) == Sq(FileIdx(n[1]), RankIdx(n[2]))

(***************************************************************************)
(* The Game object and the Games table                                     *)
(***************************************************************************)
\* Python's None (self.draw, a NULL Draw column)
None == 0 - 1

\* a NULL text column (PawnMove)
NullText == << >>

\* the Games table holds no row for the game's (group, white, black) triple
NoRow == [exists |-> FALSE]

\* default player ids of Game.__init__
WhiteId == 0

BlackId == 1

\* how many ids that belong to neither player are tried as player_id
NumStrangers == 1

PlayerIds == WhiteId .. (BlackId + NumStrangers)

\* the class of the Game object and its sql flags:
\*   "legacy": src/game.py's Game, every method carries its own SQL;
\*   "auto":   postgres Game with auto_sql = True;
\*   "manual": postgres Game with sql = True, auto_sql = False.
Classes == {"legacy", "auto", "manual"}

\* the move strings tried, and how many of them
MoveInputs ==
  << <<"f", "3">>, <<"e", "5">>, <<"g", "4">>, <<"Q", "h", "4">>,
     <<"e", "9">>, <<"O", "-", "O">>, <<"a", "4">> >>

NumMoveInputs == 5

VARIABLES
  game,   \* the Game object: [board, turn, draw]
  cls,    \* its class and sql flags
  db,     \* the row of the Games table for the game's triple, or NoRow
  last,   \* the last call: [op, arg, err, ret]
  other,  \* the Game object a second caller holds for the same triple
  challenges,  \* the Challenges table: <<GroupId, Challenger, Challenged>>
  games   \* the keys <<GroupId, WhiteId, BlackId>> of the Games rows the
          \* Challenge class reads (rows of games other than the object's)

vars == <<game, cls, db, last, other, challenges, games>>

\* the row sql_game_init inserts for a new game
FreshRow ==
  [exists   |-> TRUE,
   board    |-> disassemble_board(NewBoard)[1],
   turn     |-> 0,
   pawnmove |-> NullText,
   draw     |-> None,
   moved    |-> <<"0", "0", "0", "0", "0", "0">>,
   status   |-> 0]

\* a Game in memory as chesslib's constructor leaves it
NewGame == [board |-> NewBoard, turn |-> 0, draw |-> None]

\* the outcome of a call: the error raised ("none": it returned), the value
\* returned, the object and the row after it
RetV(e, v, g, row) == [err |-> e, ret |-> v, game |-> g, db |-> row]

Ret(e, g, row) == RetV(e, "None", g, row)

(***************************************************************************)
(* SQL statements                                                          *)
(***************************************************************************)
PawnMoveOf(b) ==
  IF b.two_moveP # NoSquare THEN c_notation(b.two_moveP) ELSE NullText

\* postgres Game.update_db: the UPDATE touches the row only if it exists
update_db(row, g) ==
  IF ~row.exists THEN row
  ELSE [exists   |-> TRUE,
        board    |-> disassemble_board(g.board)[1],
        turn     |-> g.turn,
        pawnmove |-> PawnMoveOf(g.board),
        draw     |-> g.draw,
        moved    |-> disassemble_board(g.board)[2],
        status   |-> g.board.status]

\* postgres Game.update_draw_status
update_draw_status(row, g) ==
  IF ~row.exists THEN row
  ELSE [row EXCEPT !.draw = g.draw, !.status = g.board.status]

\* postgres Game.clear_draw_status, and the legacy draw_decline's UPDATE
clear_draw_status(row) ==
  IF ~row.exists THEN row ELSE [row EXCEPT !.draw = None]

\* postgres Game.sql_delete_game, legacy Game.delete_game
sql_delete_game(row) == NoRow

\* the UPDATE of the legacy Game.move; g0 is the game before the move, g
\* the game after it: Draw is computed before the turn changes
LegacyMoveUpdate(row, g0, g) ==
  IF ~row.exists THEN row
  ELSE [row EXCEPT
          !.board    = disassemble_board(g.board)[1],
          !.turn     = g.turn,
          !.pawnmove = PawnMoveOf(g.board),
          !.moved    = disassemble_board(g.board)[2],
          !.draw     = IF (g0.draw # None /\ g0.turn # g0.draw)
                          \/ g0.draw = None
                       THEN None ELSE g0.draw]

\* the UPDATE of the legacy Game.draw_offer
LegacyDrawUpdate(row, g) ==
  IF ~row.exists THEN row ELSE [row EXCEPT !.draw = g.draw]

\* one statement sent to the database: it takes effect if the database
\* answers (up), and raises SQLError otherwise
Execute(up, g, row, newRow) ==
  IF up THEN Ret("none", g, newRow) ELSE Ret("SQLError", g, row)

(***************************************************************************)
(* Game controller: src/game.py                                            *)
(***************************************************************************)
is_players_turn(g, player_id) ==
  (g.turn = 0 /\ player_id = WhiteId) \/ (g.turn = 1 /\ player_id = BlackId)

\* Game.move without "self.turn = 1 - self.turn"
move_KeepsTurn(c, g, row, m, up) ==
  IF ~is_valid_c_notation(m) THEN Ret("InvalidNotationError", g, row)
  ELSE LET r  == BoardMove(g.board, m, g.turn)
           g2 == [g EXCEPT !.board = r.board]
       IN  IF r.err # "none" THEN Ret(r.err, g, row)
           ELSE IF c = "legacy"
           THEN Execute(up, g2, row, LegacyMoveUpdate(row, g, g2))
           ELSE Ret("none", g2, row)

\* Game.move with the notation test placed after the change of turn
move_LateNotationTest(c, g, row, m, up) ==
  IF ~is_valid_c_notation(m)
  THEN Ret("InvalidNotationError", [g EXCEPT !.turn = 1 - g.turn], row)
  ELSE LET r  == BoardMove(g.board, m, g.turn)
           g2 == [g EXCEPT !.board = r.board, !.turn = 1 - g.turn]
       IN  IF r.err # "none" THEN Ret(r.err, g, row)
           ELSE IF c = "legacy"
           THEN Execute(up, g2, row, LegacyMoveUpdate(row, g, g2))
           ELSE Ret("none", g2, row)

\* Game.move
move(c, g, row, m, up) ==
  IF ~is_valid_c_notation(m) THEN Ret("InvalidNotationError", g, row)
  ELSE LET r  == BoardMove(g.board, m, g.turn)
           g2 == [g EXCEPT !.board = r.board, !.turn = 1 - g.turn]
       IN  IF r.err # "none" THEN Ret(r.err, g, row)
           ELSE IF c = "legacy"
           THEN Execute(up, g2, row, LegacyMoveUpdate(row, g, g2))
           ELSE Ret("none", g2, row)

\* the caller holds the open draw offer
OwnOffer(g, player_id) ==
  (g.draw = 0 /\ player_id = WhiteId) \/ (g.draw = 1 /\ player_id = BlackId)

\* the other player holds the open draw offer
OpponentOffer(g, player_id) ==
  (g.draw = 1 /\ player_id = WhiteId) \/ (g.draw = 0 /\ player_id = BlackId)

\* the value a method returns when its statement went through
Returning(r, v) == IF r.err = "none" THEN [r EXCEPT !.ret = v] ELSE r

\* Game.end_check; the deletion is the legacy class's own SQL
end_check(c, g, row, up) ==
  IF g.board.status # 0
  THEN IF c = "legacy"
       THEN Returning(Execute(up, g, row, sql_delete_game(row)), "True")
       ELSE RetV("none", "True", g, row)
  ELSE RetV("none", "False", g, row)

\* Game.draw_accept without the test for the caller's own offer
draw_accept_NoOwnTest(c, g, row, player_id, up) ==
  IF g.draw = None
  THEN Ret("DrawNotOfferedError", g, row)
  ELSE Returning(
         end_check(c, [g EXCEPT !.board.status = DrawByAgreement], row, up),
         "None")

\* Game.draw_accept without "self.board.status = 2"
draw_accept_NoStatus(c, g, row, player_id, up) ==
  IF OwnOffer(g, player_id) \/ g.draw = None
  THEN Ret("DrawNotOfferedError", g, row)
  ELSE Returning(end_check(c, g, row, up), "None")

\* Game.draw_accept
draw_accept(c, g, row, player_id, up) ==
  IF OwnOffer(g, player_id) \/ g.draw = None
  THEN Ret("DrawNotOfferedError", g, row)
  ELSE Returning(
         end_check(c, [g EXCEPT !.board.status = DrawByAgreement], row, up),
         "None")

\* Game.draw_decline without "self.draw = None"
draw_decline_KeepsOffer(c, g, row, player_id, up) ==
  IF OwnOffer(g, player_id) \/ g.draw = None
  THEN Ret("DrawNotOfferedError", g, row)
  ELSE IF c = "legacy"
  THEN IF up THEN Ret("none", g, clear_draw_status(row))
       ELSE Ret("SQLError", g, row)
  ELSE Ret("none", g, row)

\* Game.draw_decline
draw_decline(c, g, row, player_id, up) ==
  IF OwnOffer(g, player_id) \/ g.draw = None
  THEN Ret("DrawNotOfferedError", g, row)
  ELSE IF c = "legacy"
  THEN IF up THEN Ret("none", [g EXCEPT !.draw = None], clear_draw_status(row))
       ELSE Ret("SQLError", g, row)
  ELSE Ret("none", [g EXCEPT !.draw = None], row)

(***************************************************************************)
(* PostgreSQL layer: src/chesssnake/postgres/Game.py                       *)
(***************************************************************************)
AfterSuper(c, r, up, newRow) ==
  IF r.err # "none" \/ c # "auto" THEN r
  ELSE Execute(up, r.game, r.db, newRow)

\* postgres Game.move
pg_move(c, g, row, m, up) ==
  LET r == move(c, g, row, m, up)
  IN  AfterSuper(c, r, up, update_db(r.db, r.game))

\* postgres Game.draw_accept
pg_draw_accept(c, g, row, player_id, up) ==
  LET r == draw_accept(c, g, row, player_id, up)
  IN  AfterSuper(c, r, up, update_draw_status(r.db, r.game))

\* postgres Game.draw_decline
pg_draw_decline(c, g, row, player_id, up) ==
  LET r == draw_decline(c, g, row, player_id, up)
  IN  AfterSuper(c, r, up, clear_draw_status(r.db))

\* self.draw_accept as called from inside draw_offer: the method of the
\* object's own class
self_draw_accept(c, g, row, player_id, up) ==
  IF c = "legacy" THEN draw_accept(c, g, row, player_id, up)
  ELSE pg_draw_accept(c, g, row, player_id, up)

\* the tail of Game.draw_offer with the colours of the offer exchanged
OfferTail_WrongColour(c, g, row, player_id, up) ==
  LET g2 == [g EXCEPT !.draw = IF player_id = WhiteId THEN 1 ELSE 0]
  IN  IF c = "legacy" THEN Execute(up, g2, row, LegacyDrawUpdate(row, g2))
      ELSE Ret("none", g2, row)

\* the tail of Game.draw_offer: "player offers draw"
OfferTail(c, g, row, player_id, up) ==
  LET g2 == [g EXCEPT !.draw = IF player_id = WhiteId THEN 0 ELSE 1]
  IN  IF c = "legacy" THEN Execute(up, g2, row, LegacyDrawUpdate(row, g2))
      ELSE Ret("none", g2, row)

\* Game.draw_offer without its first test (the caller's own open offer)
draw_offer_NoOwnTest(c, g, row, player_id, up) ==
  IF OpponentOffer(g, player_id)
  THEN LET a == self_draw_accept(c, g, row, player_id, up)
       IN  IF a.err # "none" THEN a
           ELSE OfferTail(c, a.game, a.db, player_id, up)
  ELSE IF ~is_players_turn(g, player_id)
  THEN Ret("DrawWrongTurnError", g, row)
  ELSE OfferTail(c, g, row, player_id, up)

\* Game.draw_offer without its turn test
draw_offer_NoTurnTest(c, g, row, player_id, up) ==
  IF OwnOffer(g, player_id) THEN Ret("DrawAlreadyOfferedError", g, row)
  ELSE IF OpponentOffer(g, player_id)
  THEN LET a == self_draw_accept(c, g, row, player_id, up)
       IN  IF a.err # "none" THEN a
           ELSE OfferTail(c, a.game, a.db, player_id, up)
  ELSE OfferTail(c, g, row, player_id, up)

\* Game.draw_offer (src/game.py)
draw_offer(c, g, row, player_id, up) ==
  IF OwnOffer(g, player_id) THEN Ret("DrawAlreadyOfferedError", g, row)
  ELSE IF OpponentOffer(g, player_id)
  THEN LET a == self_draw_accept(c, g, row, player_id, up)
       IN  IF a.err # "none" THEN a
           ELSE OfferTail(c, a.game, a.db, player_id, up)
  ELSE IF ~is_players_turn(g, player_id)
  THEN Ret("DrawWrongTurnError", g, row)
  ELSE OfferTail(c, g, row, player_id, up)

\* postgres Game.draw_offer
pg_draw_offer(c, g, row, player_id, up) ==
  LET r == draw_offer(c, g, row, player_id, up)
  IN  AfterSuper(c, r, up, update_draw_status(r.db, r.game))

\* postgres Game.end without the call of sql_delete_game
end_KeepsRecord(c, g, row, up) ==
  IF g.board.status # 0
  THEN RetV("none", "True", g, row)
  ELSE RetV("none", "False", g, row)

\* postgres Game.end
end(c, g, row, up) ==
  IF g.board.status # 0
  THEN Returning(Execute(up, g, row, sql_delete_game(row)), "True")
  ELSE RetV("none", "False", g, row)

\* postgres Game.sql_game_init: line 335 annotates the name game with the
\* query call and assigns nothing, and Python never evaluates the annotation
\* of a local name: no statement reaches the database, and line 337 reads
\* the unbound local
sql_game_init(row) == [err |-> "UnboundLocalError", db |-> row]

\* postgres Game.__init__ with ids in the BIGINT range: with sql or auto_sql
\* it fails inside sql_game_init, without them line 126 reads game_data,
\* which only the sql branch binds.  No Game object comes to exist.
NoGame == [exists |-> FALSE]

GameInit(sql, auto_sql, row) ==
  IF sql \/ auto_sql
  THEN Ret(sql_game_init(row).err, NoGame, sql_game_init(row).db)
  ELSE Ret("UnboundLocalError", NoGame, row)

\* Python values passed as ids.  An int is written hi * 2^63 + lo with lo
\* small, so that the BIGINT limits and their neighbours can be told apart
\* with 32-bit arithmetic; a float is given by the int below it.
PyInt(hi, lo) == [type |-> "int", hi |-> hi, lo |-> lo]

PyFloat(hi, lo) == [type |-> "float", hi |-> hi, lo |-> lo]

PyStr == [type |-> "str"]

BIGINT_MIN == PyInt(0 - 1, 0)

BIGINT_MAX == PyInt(1, 0 - 1)

\* a <= b for two numbers
NumLeq(a, b) == a.hi < b.hi \/ (a.hi = b.hi /\ a.lo <= b.lo)

\* BIGINT_MIN <= v <= BIGINT_MAX: "TypeError" when v cannot be compared with
\* an int, otherwise the truth value
Chained(v) ==
  IF v.type \notin {"int", "float"} THEN "TypeError"
  ELSE IF NumLeq(BIGINT_MIN, v) /\ NumLeq(v, BIGINT_MAX) THEN "True"
  ELSE "False"

\* lines 103-113 of Game.__init__.  The SQLIdError of line 105 is built and
\* dropped (no raise); the range test of lines 110-112 compares the ids from
\* left to right and stops at the first that is out of range.
ValidateIds(white_id, black_id, group_id) ==
  IF Chained(white_id) # "True"
  THEN IF Chained(white_id) = "False" THEN "SQLIdError" ELSE "TypeError"
  ELSE IF Chained(black_id) # "True"
  THEN IF Chained(black_id) = "False" THEN "SQLIdError" ELSE "TypeError"
  ELSE IF Chained(group_id) # "True"
  THEN IF Chained(group_id) = "False" THEN "SQLIdError" ELSE "TypeError"
  ELSE "none"

\* postgres Game.__init__ with any ids
Game_init(white_id, black_id, group_id, sql, auto_sql, row) ==
  IF ValidateIds(white_id, black_id, group_id) # "none"
  THEN Ret(ValidateIds(white_id, black_id, group_id), NoGame, row)
  ELSE GameInit(sql, auto_sql, row)

\* the values tried as an id: 0, 1, both limits, their outer neighbours,
\* 1.5 and a string
IdValues ==
  {PyInt(0, 0), PyInt(0, 1), BIGINT_MIN, BIGINT_MAX, PyInt(0 - 1, 0 - 1),
   PyInt(1, 0), PyFloat(0, 1), PyStr}

\* the id triples tried: the default ids with white_id replaced by each
\* value, a string for black_id, 2^63 for group_id, and 2^63 before a string
IdInputs ==
  {<<v, PyInt(0, 1), PyInt(0, 0)>> : v \in IdValues}
  \cup {<<PyInt(0, 0), PyStr, PyInt(0, 0)>>,
        <<PyInt(0, 0), PyInt(0, 1), PyInt(1, 0)>>,
        <<PyInt(1, 0), PyStr, PyInt(0, 0)>>}

\* legacy Game.__init__ (src/game.py): wname and bname are pasted unquoted
\* into the INSERT of the DO block.  With the default names the block is
\* "..., '000000', , );" and the server rejects the statement; with a bare
\* name the INSERT names a column that does not exist and fails when it is
\* run, which is when the triple has no row.  When the row is there the
\* SELECT answers, and line 69 indexes the RealDictRow with an integer.
\* In every case the constructor raises and the table is as it was.
LegacyInit(named, row) ==
  IF ~named \/ ~row.exists THEN Ret("ProgrammingError", NoGame, row)
  ELSE Ret("KeyError", NoGame, row)

(***************************************************************************)
(* The state machine: one action per public method                         *)
(***************************************************************************)
\* Init is the state the constructors are written to establish: a fresh
\* game in memory and its fresh row in the Games table.
Init ==
  /\ game = NewGame
  /\ cls \in Classes
  /\ db = FreshRow
  /\ last = [op |-> "init", arg |-> None, err |-> "none", ret |-> "None"]
  /\ other = NoGame
  /\ challenges = {}
  /\ games = {}

Call(op, arg, r) ==
  /\ game' = r.game
  /\ db' = r.db
  /\ last' = [op |-> op, arg |-> arg, err |-> r.err, ret |-> r.ret]
  /\ UNCHANGED <<cls, other, challenges, games>>

Move ==
  \E k \in 1 .. NumMoveInputs, down \in BOOLEAN :
     Call("move", k, IF cls = "legacy"
                     THEN move(cls, game, db, MoveInputs[k], ~down)
                     ELSE pg_move(cls, game, db, MoveInputs[k], ~down))

DrawOffer ==
  \E p \in PlayerIds, down \in BOOLEAN :
     Call("draw_offer", p, IF cls = "legacy"
                           THEN draw_offer(cls, game, db, p, ~down)
                           ELSE pg_draw_offer(cls, game, db, p, ~down))

DrawAccept ==
  \E p \in PlayerIds, down \in BOOLEAN :
     Call("draw_accept", p, self_draw_accept(cls, game, db, p, ~down))

DrawDecline ==
  \E p \in PlayerIds, down \in BOOLEAN :
     Call("draw_decline", p, IF cls = "legacy"
                             THEN draw_decline(cls, game, db, p, ~down)
                             ELSE pg_draw_decline(cls, game, db, p, ~down))

\* postgres Game.end; the legacy class has end_check in its place
End ==
  \E down \in BOOLEAN :
     Call("end", None, IF cls = "legacy"
                       THEN end_check(cls, game, db, ~down)
                       ELSE end(cls, game, db, ~down))

\* postgres Game.update_db called by the application (sql without auto_sql)
UpdateDb ==
  /\ cls = "manual"
  /\ \E down \in BOOLEAN :
        Call("update_db", None, Execute(~down, game, db, update_db(db, game)))

\* the default ids of Game.__init__
DefaultIds == <<PyInt(0, WhiteId), PyInt(0, BlackId), PyInt(0, 0)>>

\* a second Game(...) is constructed for the same triple, or with other
\* ids and the default flags (sql=True, auto_sql=False); the object in hand
\* is not touched
Construct ==
  /\ cls # "legacy"
  /\ \E sql \in BOOLEAN, auto_sql \in BOOLEAN, ids \in IdInputs :
        /\ ids = DefaultIds \/ (sql /\ ~auto_sql)
        /\ LET r == Game_init(ids[1], ids[2], ids[3], sql, auto_sql, db)
           IN  /\ db' = r.db
               /\ last' = [op |-> "Game", arg |-> None, err |-> r.err,
                           ret |-> r.ret]
               /\ UNCHANGED <<game, cls, other, challenges, games>>

\* the same for the legacy class
LegacyConstruct ==
  /\ cls = "legacy"
  /\ \E named \in BOOLEAN :
        LET r == LegacyInit(named, db)
        IN  /\ db' = r.db
            /\ last' = [op |-> "Game", arg |-> None, err |-> r.err,
                        ret |-> r.ret]
            /\ UNCHANGED <<game, cls, other, challenges, games>>

Next ==
  \/ Move \/ DrawOffer \/ DrawAccept \/ DrawDecline \/ End \/ UpdateDb
  \/ Construct \/ LegacyConstruct

Spec == Init /\ [][Next]_vars

(***************************************************************************)
(* Two callers on one stored game: each holds its own Game object for the  *)
(* same triple, as loaded from the same record, and moves on it.  The      *)
(* database answers every statement.                                       *)
(***************************************************************************)
\* the public move of the object's class
PublicMove(c, g, row, m, up) ==
  IF c = "legacy" THEN move(c, g, row, m, up) ELSE pg_move(c, g, row, m, up)

InitConc ==
  /\ game = NewGame
  /\ other = NewGame
  /\ challenges = {}
  /\ games = {}
  /\ cls \in {"auto", "legacy"}
  /\ db = FreshRow
  /\ last = [op |-> "init", arg |-> None, err |-> "none", ret |-> "None"]

\* the first caller's object moves
FirstCall(op, arg, r) ==
  /\ game' = r.game
  /\ db' = r.db
  /\ last' = [op |-> op, arg |-> arg, err |-> r.err, ret |-> r.ret]
  /\ UNCHANGED <<cls, other, challenges, games>>

\* the second caller's object moves
SecondCall(op, arg, r) ==
  /\ other' = r.game
  /\ db' = r.db
  /\ last' = [op |-> op, arg |-> arg, err |-> r.err, ret |-> r.ret]
  /\ UNCHANGED <<cls, game, challenges, games>>

FirstMove ==
  \E k \in 1 .. NumMoveInputs :
     FirstCall("move", k,
               PublicMove(cls, game, db, MoveInputs[k], TRUE))

SecondMove ==
  \E k \in 1 .. NumMoveInputs :
     SecondCall("other.move", k,
                PublicMove(cls, other, db, MoveInputs[k], TRUE))

NextConc == FirstMove \/ SecondMove

SpecConc == InitConc /\ [][NextConc]_vars

(***************************************************************************)
(* The rules engine on its own: one game that writes through, the database *)
(* answering every statement, and a list of moves that brings about a      *)
(* double step and an en-passant capture, a pinned pawn, two knights that  *)
(* reach one square, a bishop move and castling.                           *)
(***************************************************************************)
EngineInputs ==
  << <<"e", "4">>, <<"e", "5">>, <<"d", "5">>, <<"f", "5">>,
     <<"e", "x", "d", "6">>, <<"e", "x", "f", "6">>, <<"N", "f", "6">>,
     <<"N", "f", "3">>, <<"d", "4">>, <<"N", "d", "2">>,
     <<"N", "b", "d", "2">>, <<"Q", "h", "4">>, <<"f", "3">>,
     <<"B", "e", "2">>, <<"O", "-", "O">>, <<"g", "4">> >>

NumEngineInputs == 15

InitEngine ==
  /\ game = NewGame
  /\ cls = "auto"
  /\ db = FreshRow
  /\ last = [op |-> "init", arg |-> None, err |-> "none", ret |-> "None"]
  /\ other = NoGame
  /\ challenges = {}
  /\ games = {}

EngineMove ==
  \E k \in 1 .. NumEngineInputs :
     Call("move", k, PublicMove(cls, game, db, EngineInputs[k], TRUE))

NextEngine == EngineMove

SpecEngine == InitEngine /\ [][NextEngine]_vars

(***************************************************************************)
(* The Challenge class and the Challenges table.  A row of Challenges is   *)
(* <<GroupId, Challenger, Challenged>>, a key of Games is <<GroupId,       *)
(* WhiteId, BlackId>>.  The database answers every statement; every        *)
(* statement is committed on its own (execute_psql commits a statement     *)
(* that returns no rows, the legacy execute_sql commits when its           *)
(* connection block is left).                                              *)
(***************************************************************************)
\* the ids tried as challenger, opponent and gid: the defaults of
\* Challenge.challenge (challenger=0, opponent=1, gid=0)
ChallengeIds == {WhiteId, BlackId}

ChallengeKeys == ChallengeIds \X ChallengeIds \X ChallengeIds

\* the Challenges table is not grown beyond this many rows
MaxChallenges == 2

\* Python values a query helper returns
PyNone == [type |-> "NoneType"]

PyBool(b) == [type |-> "bool", val |-> b]

\* games[0] of a non-empty result: one of the rows found (no ORDER BY)
PyRow(rows) == [type |-> "row", val |-> rows]

\* Python's truth value: a RealDictRow of two columns is true
Truthy(v) ==
  CASE v.type = "NoneType" -> FALSE
    [] v.type = "bool" -> v.val
    [] v.type = "row" -> TRUE

\* the rows of table t in group gid between player1 and player2, in either
\* order (the WHERE clause shared by the four lookups)
BetweenRows(t, gid, player1, player2) ==
  {r \in t : /\ r[1] = gid
             /\ \/ r[2] = player1 /\ r[3] = player2
                \/ r[2] = player2 /\ r[3] = player1}

\* postgres Game.psql_game_exists(player1, player2, gid)
psql_game_exists(player1, player2, gid, gm) ==
  LET found == BetweenRows(gm, gid, player1, player2)
  IN  IF found # {} THEN PyRow(found) ELSE PyNone

\* legacy Game.game_exists(gid, player1, player2)
game_exists(gid, player1, player2, gm) ==
  LET found == BetweenRows(gm, gid, player1, player2)
  IN  IF found # {} THEN PyRow(found) ELSE PyBool(FALSE)

\* postgres Challenge.exists(player1, player2, gid): True or False
Challenge_exists(player1, player2, gid, ch) ==
  PyBool(BetweenRows(ch, gid, player1, player2) # {})

\* legacy Challenge.exists(player1, player2, gid): a row or False
legacy_exists(player1, player2, gid, ch) ==
  LET found == BetweenRows(ch, gid, player1, player2)
  IN  IF found # {} THEN PyRow(found) ELSE PyBool(FALSE)

\* Challenge.create_challenge(challenger, challenged, gid): INSERT unless
\* the row is there
create_challenge(challenger, challenged, gid, ch) ==
  ch \cup {<<gid, challenger, challenged>>}

\* Challenge.delete_challenge(challenger, challenged, gid)
delete_challenge(challenger, challenged, gid, ch) ==
  ch \ {<<gid, challenger, challenged>>}

ChallengeOut(ch, gm, err, ret) ==
  [challenges |-> ch, games |-> gm, err |-> err, ret |-> ret]

\* postgres Challenge.challenge(challenger, opponent, gid).
\* psql_game_exists is called with (gid, challenger, opponent) for its
\* parameters (player1, player2, gid).  Challenge.exists returns a bool, so
\* "challenge is None" is false and challenge["challenger"] subscripts a
\* bool.
Challenge_challenge(challenger, opponent, gid, ch, gm) ==
  IF challenger = opponent
  THEN ChallengeOut(ch, gm, "ChallengeError", "None")
  ELSE IF Truthy(psql_game_exists(gid, challenger, opponent, gm))
  THEN ChallengeOut(ch, gm, "ChallengeError", "None")
  ELSE LET challenge == Challenge_exists(challenger, opponent, gid, ch)
       IN  IF challenge.type = "NoneType"
           THEN ChallengeOut(create_challenge(challenger, opponent, gid, ch),
                             gm, "none", "False")
           ELSE IF challenge.type # "row"
           THEN ChallengeOut(ch, gm, "TypeError", "None")
           ELSE IF \E r \in challenge.val : r[2] = challenger
           THEN ChallengeOut(ch, gm, "ChallengeError", "None")
           ELSE ChallengeOut(delete_challenge(challenger, opponent, gid, ch),
                             gm, "none", "None")

\* legacy Challenge.challenge(challenger, opponent, gid).  The three
\* ChallengeError objects are built and dropped (no raise), so the tests
\* of lines 233 and 237 decide nothing; exists and create_challenge are
\* called with (gid, challenger, opponent) for their parameters
\* (player1, player2, gid) and (challenger, challenged, gid); challenge[0]
\* looks up the key 0 in a RealDictRow.
legacy_challenge(challenger, opponent, gid, ch, gm) ==
  LET played == game_exists(gid, challenger, opponent, gm)
      challenge == legacy_exists(gid, challenger, opponent, ch)
  IN  IF ~Truthy(challenge)
      THEN ChallengeOut(create_challenge(gid, challenger, opponent, ch),
                        gm, "none", "None")
      ELSE ChallengeOut(ch, gm, "KeyError", "None")

InitChallenge ==
  /\ game = NoGame
  /\ other = NoGame
  /\ cls \in {"auto", "legacy"}
  /\ db = NoRow
  /\ last = [op |-> "init", arg |-> None, err |-> "none", ret |-> "None"]
  /\ challenges = {}
  /\ games \in {{}} \cup {{k} : k \in ChallengeKeys}

ChallengeCall(op, arg, r) ==
  /\ Cardinality(r.challenges) <= MaxChallenges
  /\ challenges' = r.challenges
  /\ games' = r.games
  /\ last' = [op |-> op, arg |-> arg, err |-> r.err, ret |-> r.ret]
  /\ UNCHANGED <<game, cls, db, other>>

\* Challenge.challenge(challenger, opponent, gid)
Challenge ==
  \E challenger \in ChallengeIds, opponent \in ChallengeIds,
     gid \in ChallengeIds :
     ChallengeCall("challenge", <<challenger, opponent, gid>>,
                   IF cls = "legacy"
                   THEN legacy_challenge(challenger, opponent, gid,
                                         challenges, games)
                   ELSE Challenge_challenge(challenger, opponent, gid,
                                            challenges, games))

\* Challenge.create_challenge called by the application
CreateChallenge ==
  \E challenger \in ChallengeIds, challenged \in ChallengeIds,
     gid \in ChallengeIds :
     /\ challenger # challenged
     /\ ChallengeCall("create_challenge", <<challenger, challenged, gid>>,
                      ChallengeOut(create_challenge(challenger, challenged,
                                                    gid, challenges),
                                   games, "none", "None"))

\* Challenge.delete_challenge called by the application
DeleteChallenge ==
  \E challenger \in ChallengeIds, challenged \in ChallengeIds,
     gid \in ChallengeIds :
     /\ challenger # challenged
     /\ ChallengeCall("delete_challenge", <<challenger, challenged, gid>>,
                      ChallengeOut(delete_challenge(challenger, challenged,
                                                    gid, challenges),
                                   games, "none", "None"))

NextChallenge == Challenge \/ CreateChallenge \/ DeleteChallenge

SpecChallenge == InitChallenge /\ [][NextChallenge]_vars

(***************************************************************************)
(* Properties                                                              *)
(***************************************************************************)
\* the errors Chess raises for a move string: bad notation and rule errors
MoveErrors ==
  {"InvalidNotationError", "PieceNotFoundError", "MultiplePiecesFoundError",
   "CaptureOwnPieceError", "NothingToCaptureError", "PieceOnSquareError",
   "PromotionError", "InvalidCastleError", "MoveIntoCheckError"}

DrawOps == {"draw_offer", "draw_accept", "draw_decline"}

Players == {WhiteId, BlackId}

ColourOf(player_id) == IF player_id = WhiteId THEN 0 ELSE 1

\* C1: after every successful move the turn is the opposite colour, and after
\* a move that fails on its notation or on a rule the turn is unchanged.
C1_TurnAlternates ==
  [][last'.op = "move" =>
       /\ last'.err = "none" => game'.turn = 1 - game.turn
       /\ last'.err \in MoveErrors => game'.turn = game.turn]_vars

\* two successful moves have been made: the turn is White's again
C1_Witness ==
  last.op = "move" /\ last.err = "none" /\ game.turn = 0
  /\ game.board.sq # NewBoard.sq

\* C2: an operation that fails, whatever the cause, leaves board, turn,
\* status and draw offer as they were.
C2_FailureChangesNothing ==
  [][(last'.op \in DrawOps \cup {"move"} /\ last'.err # "none")
       => game' = game]_vars

\* C3: writing the game with update_db and constructing a Game for the same
\* triple yields a game equal to the one written.
C3_RoundTrip ==
  db.exists =>
    LET r == GameInit(TRUE, cls = "auto", update_db(db, game))
    IN  r.err = "none" /\ r.game = game

\* C4: with auto_sql, after each successful move or draw operation the stored
\* record equals the game in memory.
C4_WriteThrough ==
  (cls = "auto" /\ last.op \in DrawOps \cup {"move"} /\ last.err = "none")
    => (db.exists /\ db = update_db(db, game))

\* C5: a move on a game whose status is not InProgress is rejected and
\* changes neither board nor turn.
C5_TerminalRejectsMove ==
  [][(last'.op = "move" /\ game.board.status # InProgress)
       => /\ last'.err # "none"
          /\ game'.board = game.board
          /\ game'.turn = game.turn]_vars

\* C6: terminal states are absorbing; stated for the statuses a move ends the
\* game with: once Checkmate or Stalemate, no operation changes the status
\* (a draw cannot be agreed on a game that has ended).
C6_TerminalAbsorbing ==
  [][game.board.status \in {Checkmate, Stalemate}
       => game'.board.status = game.board.status]_vars

\* C7: draw_offer by the player who holds the open offer fails with
\* DrawAlreadyOfferedError and changes neither the game nor the record.
C7_AlreadyOffered ==
  [][(last'.op = "draw_offer" /\ OwnOffer(game, last'.arg))
       => /\ last'.err = "DrawAlreadyOfferedError"
          /\ game' = game
          /\ db' = db]_vars

C7_Witness ==
  last.op = "draw_offer" /\ last.err = "DrawAlreadyOfferedError"
  /\ OwnOffer(game, last.arg) /\ db.exists

PublicDrawOffer(p, up) ==
  IF cls = "legacy" THEN draw_offer(cls, game, db, p, up)
  ELSE pg_draw_offer(cls, game, db, p, up)

PublicDrawAccept(p, up) == self_draw_accept(cls, game, db, p, up)

\* C9: when the opponent holds the open offer, draw_offer and draw_accept end
\* in the same game state and the same stored record.
C9_OfferIsAccept ==
  \A p \in Players :
     OpponentOffer(game, p) =>
       /\ PublicDrawOffer(p, TRUE).game = PublicDrawAccept(p, TRUE).game
       /\ PublicDrawOffer(p, TRUE).db = PublicDrawAccept(p, TRUE).db

\* C10: with no offer open and on the player's turn, draw_offer sets the draw
\* offer to the player's colour and leaves board, turn and status unchanged.
C10_OfferSetsDraw ==
  [][(last'.op = "draw_offer" /\ game.draw = None
        /\ is_players_turn(game, last'.arg))
       => /\ game'.draw = ColourOf(last'.arg)
          /\ game'.board = game.board
          /\ game'.turn = game.turn]_vars

\* Black has offered a draw on Black's turn
C10_Witness ==
  last.op = "draw_offer" /\ last.arg = BlackId /\ last.err = "none"
  /\ game.draw = 1 /\ game.turn = 1 /\ game.board.status = InProgress

\* the condition under which draw_accept and draw_decline refuse: no offer is
\* open, or the open offer is the caller's own
NotOffered(g, player_id) == g.draw = None \/ OwnOffer(g, player_id)

\* C11: draw_accept fails with DrawNotOfferedError exactly when no draw offer
\* is open or the open offer is the caller's own, and then leaves status, draw
\* offer and the stored record unchanged.
C11_AcceptNotOffered ==
  [][last'.op = "draw_accept" =>
       /\ (last'.err = "DrawNotOfferedError") <=> NotOffered(game, last'.arg)
       /\ NotOffered(game, last'.arg) =>
            /\ game'.board.status = game.board.status
            /\ game'.draw = game.draw
            /\ db' = db]_vars

\* the player who holds the open offer has tried to accept it
C11_Witness ==
  last.op = "draw_accept" /\ last.err = "DrawNotOfferedError"
  /\ OwnOffer(game, last.arg) /\ db.exists

\* C12: when the open offer belongs to the caller's opponent, draw_accept
\* sets the status to DrawByAgreement.
C12_AcceptEndsGame ==
  [][(last'.op = "draw_accept" /\ OpponentOffer(game, last'.arg))
       => game'.board.status = DrawByAgreement]_vars

\* White offered, Black accepted
C12_Witness ==
  last.op = "draw_accept" /\ last.arg = BlackId /\ last.err = "none"
  /\ game.draw = 0 /\ game.board.status = DrawByAgreement

C14_MoveClearsOffer ==
  [][(last'.op = "move" /\ last'.err = "none") =>
       /\ game'.draw = None
       /\ (db'.exists /\ cls # "manual") => db'.draw = None]_vars

\* C15: a move string outside the notation grammar fails with
\* InvalidNotationError on every board, and board, turn, draw offer, status
\* and stored record are unchanged.
C15_InvalidNotation ==
  [][(last'.op = "move" /\ ~is_valid_c_notation(MoveInputs[last'.arg])) =>
       /\ last'.err = "InvalidNotationError"
       /\ game' = game
       /\ db' = db]_vars

\* a malformed string was refused in the middle of a game, with an offer open
C15_Witness ==
  /\ last.op = "move" /\ last.err = "InvalidNotationError"
  /\ ~is_valid_c_notation(MoveInputs[last.arg])
  /\ game.board.sq # NewBoard.sq /\ game.turn = 1 /\ game.draw # None
  /\ db.exists

\* the outcomes of constructing a Game of the object's class for its triple,
\* with SQL support, over the stored row
Constructions(row) ==
  IF cls = "legacy" THEN {LegacyInit(named, row) : named \in BOOLEAN}
  ELSE {GameInit(TRUE, cls = "auto", row)}

\* C16: a Game constructed for a triple without a stored record is the fresh
\* game: starting position, White to move, no flag set, no en-passant
\* square, status InProgress, no draw offer.
C16_FreshGame ==
  ~db.exists =>
    \A r \in Constructions(db) : r.err = "none" /\ r.game = NewGame

\* C17: constructing a Game with SQL support for a triple without a stored
\* record leaves exactly the fresh record in the table.
C17_RecordCreated ==
  (~db.exists /\ cls # "legacy") =>
    GameInit(TRUE, cls = "auto", db).db = FreshRow

\* C18: constructing a Game for a triple with a stored record succeeds, leaves
\* the record as it is, and constructing it again gives the same game.
C18_LoadKeepsRecord ==
  db.exists =>
    \A r \in Constructions(db) :
       /\ r.err = "none"
       /\ r.game # NoGame
       /\ r.db = db
       /\ \A r2 \in Constructions(r.db) : r2.game = r.game /\ r2.db = db

C20_NoLostUpdate ==
  [][/\ (last'.op = "move" /\ last'.err = "none" /\ game.turn # db.turn)
          => db' = db
     /\ (last'.op = "other.move" /\ last'.err = "none"
           /\ other.turn # db.turn)
          => db' = db]_vars

\* the number of pieces of colour c, of kings of colour c, on a board
Pieces(b, c) == Cardinality({s \in Squares : b.sq[s].c = c})

Kings(b, c) == Cardinality({s \in Squares : b.sq[s] = Pc("K", c)})

\* C21: after every sequence of successful moves from the initial position
\* each colour has exactly one King, and a square holds one piece: a move
\* leaves the mover's piece count as it was and takes at most one piece of
\* the opponent.
C21_OneKingEach ==
  [][(last'.op = "move" /\ last'.err = "none") =>
       /\ \A c \in {White, Black} : Kings(game'.board, c) = 1
       /\ Pieces(game'.board, game.turn) = Pieces(game.board, game.turn)
       /\ Pieces(game.board, 1 - game.turn) - Pieces(game'.board, 1 - game.turn)
            \in {0, 1}]_vars

\* White has castled: king on g1, rook on f1
C21_Witness ==
  /\ last.op = "move" /\ last.err = "none"
  /\ game.board.sq[Sq(6, 0)] = Pc("K", White)
  /\ game.board.sq[Sq(5, 0)] = Pc("R", White)
  /\ Pieces(game.board, Black) < 16

\* the mover's pawn went two ranks forward from its starting rank
DoubleStepped(b, b2, c) ==
  \E f \in 0 .. 7 :
     LET from == Sq(f, PawnStartRank(c))
         to   == from + 16 * PawnDir(c)
     IN  /\ b.sq[from] = Pc("P", c) /\ b.sq[to] = Empty
         /\ b2.sq[from] = Empty /\ b2.sq[to] = Pc("P", c)
         /\ b2.two_moveP = from + 8 * PawnDir(c)

\* C22: after a successful move the en-passant target is set exactly when
\* the move was a double pawn step (so a target lives for one move), the
\* stored PawnMove column follows it, and a pawn capture onto an empty
\* square other than the target fails with NothingToCaptureError; when it
\* succeeds the pawn that made the double step is taken.
C22_EnPassantOneMove ==
  [][last'.op = "move" =>
       LET i == ParseMove(EngineInputs[last'.arg])
           c == game.turn
       IN  /\ last'.err = "none" =>
                /\ (game'.board.two_moveP # NoSquare)
                     <=> DoubleStepped(game.board, game'.board, c)
                /\ (db'.pawnmove = NullText)
                     <=> (game'.board.two_moveP = NoSquare)
           /\ (i.castle = "-" /\ i.piece = "P" /\ i.capture
                 /\ game.board.sq[i.to] = Empty) =>
                /\ game.board.two_moveP # i.to
                     => (last'.err = "NothingToCaptureError" /\ game' = game)
                /\ last'.err = "none" =>
                     /\ game.board.sq[i.to - 8 * PawnDir(c)] = Pc("P", 1 - c)
                     /\ game'.board.sq[i.to - 8 * PawnDir(c)] = Empty
                     /\ game'.board.sq[i.to] = Pc("P", c)]_vars

\* White has taken the d-pawn en passant
C22_Witness ==
  /\ last.op = "move" /\ last.err = "none"
  /\ EngineInputs[last.arg] = <<"e", "x", "d", "6">>
  /\ game.board.sq[Sq(3, 5)] = Pc("P", White)
  /\ game.board.sq[Sq(3, 4)] = Empty
  /\ game.board.two_moveP = NoSquare

Matching(b, c, i) ==
  {f \in Squares :
     /\ b.sq[f] = Pc(i.piece, c)
     /\ (i.disFile = 8 \/ File(f) = i.disFile)
     /\ (i.disRank = 8 \/ Rank(f) = i.disRank)
     /\ b.sq[i.to].c # c
     /\ Reaches(b, f, i.to)}

\* those of them whose step leaves the mover's King unattacked
LegalMatching(b, c, i) ==
  {f \in Matching(b, c, i) : LegalStep(b, c, f, i.to)}

\* the target square's occupancy agrees with the intent's capture mark
OccupancyAgrees(b, c, i) ==
  /\ b.sq[i.to].c # c
  /\ i.capture <=> (b.sq[i.to] # Empty \/ (i.piece = "P" /\ i.to = b.two_moveP))

\* C25: after a successful move the King of the side that moved is not
\* attacked, and a move all of whose candidates would leave it attacked
\* fails with MoveIntoCheckError and changes nothing.
C25_KingSafe ==
  [][last'.op = "move" =>
       \A i \in {ParseMove(EngineInputs[last'.arg])} :
          LET c == game.turn
          IN  /\ last'.err = "none" =>
                   ~Attacked(game'.board.sq, KingSquare(game'.board.sq, c),
                             1 - c)
              /\ i.castle = "-" =>
                   \A m \in {Matching(game.board, c, i)} :
                   \A lm \in {LegalMatching(game.board, c, i)} :
                      /\ (OccupancyAgrees(game.board, c, i)
                            /\ m # {} /\ lm = {})
                           => (last'.err = "MoveIntoCheckError"
                               /\ game' = game)
                      /\ last'.err = "MoveIntoCheckError"
                           => (m # {} /\ lm = {})
              /\ last'.err = "MoveIntoCheckError" => i.castle = "-"]_vars

\* the pinned f-pawn was refused: the black queen on h4 looks at e1
C25_Witness ==
  /\ last.op = "move" /\ last.err = "MoveIntoCheckError"
  /\ EngineInputs[last.arg] = <<"f", "3">>
  /\ game.board.sq[Sq(7, 3)] = Pc("Q", Black)
  /\ game.board.sq[Sq(5, 1)] = Pc("P", White)
  /\ game.board.sq[Sq(5, 2)] = Empty
  /\ game.turn = 0

\* C26: a move (castling aside) is applied only when exactly one piece of
\* the mover's colour legally matches the notation, and it is that piece
\* which moves; with several matching pieces left the call fails with
\* MultiplePiecesFoundError and changes nothing.
C26_Unambiguous ==
  [][last'.op = "move" =>
       \A i \in {ParseMove(EngineInputs[last'.arg])} :
          i.castle = "-" =>
            \A lm \in {LegalMatching(game.board, game.turn, i)} :
               /\ last'.err = "none" =>
                    /\ Cardinality(lm) = 1
                    /\ \A f \in lm :
                          /\ game'.board.sq[f] = Empty
                          /\ game'.board.sq[i.to] = game.board.sq[f]
                    /\ \A f \in Squares \ lm :
                          game.board.sq[f].c = game.turn
                            => game'.board.sq[f] = game.board.sq[f]
               /\ (Cardinality(lm) > 1
                     /\ OccupancyAgrees(game.board, game.turn, i))
                    => /\ last'.err = "MultiplePiecesFoundError"
                       /\ game' = game
                       /\ db' = db
               /\ last'.err = "MultiplePiecesFoundError"
                    => Cardinality(lm) > 1]_vars

\* Nbd2 has moved the b-file knight; the knight on f3 stayed
C26_Witness ==
  /\ last.op = "move" /\ last.err = "none"
  /\ EngineInputs[last.arg] = <<"N", "b", "d", "2">>
  /\ game.board.sq[Sq(3, 1)] = Pc("N", White)
  /\ game.board.sq[Sq(1, 0)] = Empty
  /\ game.board.sq[Sq(5, 2)] = Pc("N", White)

\* stored records that are not the codec's output: a Moved string of three
\* characters, one with a character other than 0 and 1, a board of seven
\* ranks, a board with a token that is no piece, a PawnMove that is no square
MalformedRows ==
  {[FreshRow EXCEPT !.moved = <<"0", "0", "0">>],
   [FreshRow EXCEPT !.moved = <<"0", "0", "2", "0", "0", "0">>],
   [FreshRow EXCEPT !.board = SubSeq(FreshRow.board, 1, 7)],
   [FreshRow EXCEPT !.board[4][1] = <<"Z", "9">>],
   [FreshRow EXCEPT !.pawnmove = <<"z", "9">>]}

\* C27: constructing a Game over a malformed stored record fails with the
\* codec's decode error, and no Game object is produced.
C27_DecodeError ==
  \A row \in MalformedRows :
     \A r \in Constructions(row) : r.err = "DecodeError" /\ r.game = NoGame

(***************************************************************************)
(* The Challenge class                                                     *)
(***************************************************************************)
\* the call the step made was Challenge.challenge(c, o, g)
Challenged(l, c, o, g) == l.op = "challenge" /\ l.arg = <<c, o, g>>

\* C28: when two players have no game and no pending challenge between
\* them in the group, Challenge.challenge(challenger, opponent, gid) records
\* exactly one pending challenge from challenger to opponent in that group
\* and creates no game.
C28_ChallengeRecorded ==
  [][\A c \in ChallengeIds, o \in ChallengeIds, g \in ChallengeIds :
       (/\ Challenged(last', c, o, g)
        /\ c # o
        /\ BetweenRows(games, g, c, o) = {}
        /\ BetweenRows(challenges, g, c, o) = {})
       => /\ challenges' = challenges \cup {<<g, c, o>>}
          /\ games' = games]_vars

\* C29: when opponent already has a pending challenge to challenger in the
\* group, Challenge.challenge(challenger, opponent, gid) accepts it: no
\* pending challenge between the two remains in the group and a game
\* between the two exists in the group.
C29_ReciprocalAccepts ==
  [][\A c \in ChallengeIds, o \in ChallengeIds, g \in ChallengeIds :
       (/\ Challenged(last', c, o, g)
        /\ c # o
        /\ <<g, o, c>> \in challenges
        /\ BetweenRows(games, g, c, o) = {})
       => /\ BetweenRows(challenges', g, c, o) = {}
          /\ BetweenRows(games', g, c, o) # {}]_vars

\* C30: Challenge.challenge fails with ChallengeError and creates no
\* challenge whenever a game between the two players, in either colour
\* assignment, already exists in the group.
C30_GameBlocksChallenge ==
  [][\A c \in ChallengeIds, o \in ChallengeIds, g \in ChallengeIds :
       (/\ Challenged(last', c, o, g)
        /\ c # o
        /\ BetweenRows(games, g, c, o) # {})
       => /\ last'.err = "ChallengeError"
          /\ challenges' = challenges]_vars

\* C31: when challenger already has a pending challenge to opponent in the
\* group, a repeated Challenge.challenge(challenger, opponent, gid) fails
\* with ChallengeError and leaves the stored challenges and games unchanged.
C31_RepeatedChallenge ==
  [][\A c \in ChallengeIds, o \in ChallengeIds, g \in ChallengeIds :
       (/\ Challenged(last', c, o, g)
        /\ c # o
        /\ <<g, c, o>> \in challenges)
       => /\ last'.err = "ChallengeError"
          /\ challenges' = challenges
          /\ games' = games]_vars

\* C32: Challenge.challenge with challenger equal to opponent fails with
\* ChallengeError and creates neither a challenge nor a game.
C32_SelfChallenge ==
  [][\A c \in ChallengeIds, g \in ChallengeIds :
       Challenged(last', c, c, g)
       => /\ last'.err = "ChallengeError"
          /\ challenges' = challenges
          /\ games' = games]_vars

(***************************************************************************)
(* Who may answer a draw offer                                             *)
(***************************************************************************)
\* the participant who did not make the open offer
Answerer(g) == IF g.draw = 0 THEN BlackId ELSE WhiteId

\* C35: the status becomes DrawByAgreement, or an open offer is withdrawn by
\* draw_decline, only through a call made with the id of the offerer's
\* opponent; draw_accept and draw_decline called with an id that is neither
\* the white nor the black player fail and change nothing.
C35_OnlyOpponentAnswers ==
  [][/\ (\/ /\ game'.board.status = DrawByAgreement
            /\ game.board.status # DrawByAgreement
         \/ /\ last'.op = "draw_decline"
            /\ game.draw # None
            /\ game'.draw = None)
        => (game.draw # None /\ last'.arg = Answerer(game))
     /\ (/\ last'.op \in {"draw_accept", "draw_decline"}
         /\ last'.arg \notin Players)
        => (last'.err # "none" /\ game' = game /\ db' = db)]_vars

(***************************************************************************)
(* Construction without SQL support, and the ids of a Game                 *)
(***************************************************************************)
\* C33: a Game constructed with sql=False and auto_sql=False is created
\* without database access and starts in the fresh initial state.
C33_NoSqlFresh ==
  cls # "legacy" =>
    LET r == Game_init(DefaultIds[1], DefaultIds[2], DefaultIds[3],
                       FALSE, FALSE, db)
    IN  r.err = "none" /\ r.game = NewGame /\ r.db = db

\* an id the claim calls invalid: not an integer, or outside the signed
\* 64-bit range
InvalidId(v) ==
  \/ v.type # "int"
  \/ ~(NumLeq(BIGINT_MIN, v) /\ NumLeq(v, BIGINT_MAX))

\* C34: whenever one of white_id, black_id, group_id is not an integer or
\* lies outside [-2^63, 2^63 - 1], the constructor raises SQLIdError and
\* performs no database query.
C34_InvalidIdsRejected ==
  cls # "legacy" =>
    \A ids \in IdInputs, sql \in BOOLEAN, auto_sql \in BOOLEAN :
       (\E k \in 1 .. 3 : InvalidId(ids[k]))
       => LET r == Game_init(ids[1], ids[2], ids[3], sql, auto_sql, db)
          IN  r.err = "SQLIdError" /\ r.db = db

=============================================================================
